---- MODULE Spec2Model ----
(***************************************************************************)
(* Geo-Locator AI: the App's analysis pipeline (select file -> encode ->   *)
(* analyzeMedia -> generateAudio -> ResultCard decode), the reply parser   *)
(* of analyzeMedia, and the PCM decoder of ResultCard.                     *)
(*                                                                         *)
(* Every handler and every async continuation (the code between two        *)
(* awaits) is one atomic action: the runtime is single-threaded.  Each     *)
(* action ends with the re-render it causes (Commit), which mounts or      *)
(* unmounts ResultCard and runs its processAudio effect.                   *)
(***************************************************************************)
EXTENDS Integers, Sequences, FiniteSets, TLC

(***************************************************************************)
(* Bounds of the model.                                                    *)
(***************************************************************************)
\* Analyze clicks followed in one behaviour (each click starts one run).
MaxRuns == 3

Null == <<>>
RunIds == 1..MaxRuns
Languages == {"en", "ru"}
Files == {<<"file">>}

VARIABLES
    \* ---- App state (useState hooks of App) ----
    file,               \* File | null
    ttsLanguage,        \* 'en' | 'ru'
    analysisResult,     \* <<r>>: the AnalysisResult returned to run r, or Null
    audioData,          \* <<r, ok>>: the payload returned to run r, or Null
    isLoading,
    error,              \* <<message>> or Null
    isGeneratingAudio,
    audioError,         \* <<message>> or Null
    isMobile,           \* useIsMobile()
    mobileView,         \* 'upload' | 'result'
    \* ---- ResultCard state ----
    audioBuffer,        \* <<r, ok>>: the buffer decoded from that payload, or Null
    isPlaying,          \* useState(false) of the rendered ResultCard
    \* ---- the audio output ----
    orphans,            \* buffer sources started by a ResultCard that is no
                        \* longer rendered, and not yet ended
    \* ---- the runs of handleAnalyzeClick (closure + position) ----
    runs,               \* [RunIds -> [pc, lang, result, synth]], see IdleRun
    nextRun,            \* the next run to start
    \* ---- history (not program state) ----
    invalidated,        \* runs that were in flight when a file was selected or
                        \* Start New Analysis pressed (kept while they matter)
    staleSynth,         \* those of them whose generateAudio call was pending then
    clean               \* the run whose reset no other run's continuation has overwritten, or 0

VARIABLES
    \* ---- one call of analyzeMedia (services/geminiService.ts) ----
    parsePc,            \* "calling", "replied", "extracted", "parsed", "returned", "thrown"
    responseText,       \* response.text
    text,               \* let text
    parsedResult,       \* const parsedResult
    returned,           \* the object returned: [en |-> cleanEn, ru |-> cleanRu]
    replyBody,          \* history: the text the reply was made of
    replyWrap           \* history: how it was wrapped

parseVars == <<parsePc, responseText, text, parsedResult, returned, replyBody, replyWrap>>

VARIABLES
    \* ---- one citation clean-up of a field ----
    stripPc,            \* "input", "cleaned"
    stripInput,         \* the field's text
    stripOutput         \* the cleaned text

stripVars == <<stripPc, stripInput, stripOutput>>

VARIABLES
    \* ---- one run of ResultCard's processAudio on a payload ----
    decodePc,           \* "start", "decoded", "looping", "set", "skipped", "caught"
    payload,            \* audioData: [digits |-> base64 digit values, pad |-> number of '=', blank |-> white space]
    bytes,              \* decodedBytes (Uint8Array)
    frameCount,         \* dataInt16.length
    channelData,        \* the samples written, as numerators over SampleScale
    loopIndex,          \* i of the for loop
    decodedBuffer,      \* ResultCard's audioBuffer: the samples, or Null
    bytesRead           \* history: the byte indices (from 0) read as samples

decodeVars == <<decodePc, payload, bytes, frameCount, channelData, loopIndex,
                decodedBuffer, bytesRead>>

VARIABLES
    \* ---- one rendering of ResultCard's source list ----
    renderPc,           \* "idle", "start", "mapping", "done", "fault"
    sources,            \* result.sources
    renderIndex,        \* index of the map callback (from 0)
    items,              \* what the callback returned so far
    links               \* the <li> elements shown, in order

renderVars == <<renderPc, sources, renderIndex, items, links>>

VARIABLES
    \* ---- one call of the client through the relay (api/gemini) ----
    relayPc,            \* "idle", "fetching", "received", "calling", "responded",
                        \* "thrown", "returned", "shown"
    req,                \* the request: method and body
    response,           \* the response the client gets: [status, body], or NoResponse
    responses,          \* how many times the handler has sent a response
    modelCalls,         \* how many times the handler has called the model
    thrown,             \* message of the Error the client call rejected with
    shownMessage        \* the message put in error / audioError

relayVars == <<relayPc, req, response, responses, modelCalls, thrown, shownMessage>>

appVars == <<file, ttsLanguage, analysisResult, audioData, isLoading, error,
             isGeneratingAudio, audioError, isMobile, mobileView, audioBuffer, isPlaying, orphans,
             runs, nextRun, invalidated, staleSynth, clean>>

vars == <<appVars, parseVars, stripVars, decodeVars, renderVars, relayVars>>

\* A run of handleAnalyzeClick: its position (pc), the ttsLanguage of its
\* closure (lang), the result analyzeMedia returned to it (result), the text it
\* passed to generateAudio (synth).  A run that has ended keeps nothing:
\* DoneRun.
IdleRun == [pc |-> "idle", lang |-> "en", result |-> Null, synth |-> Null]

DoneRun == [IdleRun EXCEPT !.pc = "done"]

InFlight(r) == runs[r].pc \in {"encoding", "analyzing", "synthesizing"}

InFlightRuns == {r \in RunIds : InFlight(r)}

SynthesizingRuns == {r \in RunIds : runs[r].pc = "synthesizing"}

(***************************************************************************)
(* Rendering.                                                              *)
(***************************************************************************)
\* The upload section (FileUpload, language select, Analyze button) is rendered.
UploadSectionShown(mob, view) == ~mob \/ view = "upload"

\* The result section is rendered.
ResultSectionShown(mob, view) == ~mob \/ view = "result"

\* ResultCard is rendered: not loading, no error, a result present.
ResultCardShown(mob, view, loading, err, res) ==
    ResultSectionShown(mob, view) /\ ~loading /\ err = Null /\ res # Null

\* decode + decodeAudioData on a payload: the buffer, or Null when either throws.
DecodePayload(audio) == IF audio[2] THEN audio ELSE Null

\* ResultCard's audioBuffer after a re-render: the component's state is lost
\* when it is not rendered; the processAudio effect runs on mount and whenever
\* audioData changed, and sets the buffer only when decoding succeeds.
BufferAfterRender(wasShown, shown, oldData, newData, oldBuffer) ==
    IF ~shown THEN Null
    ELSE LET kept == IF wasShown THEN oldBuffer ELSE Null
             ran  == ~wasShown \/ newData # oldData
         IN  IF ran /\ newData # Null /\ DecodePayload(newData) # Null
             THEN DecodePayload(newData)
             ELSE kept

\* ResultCard's isPlaying after a re-render: kept while the component stays
\* rendered, false in a component just mounted.
PlayingAfterRender(wasShown, shown, oldPlaying) == wasShown /\ shown /\ oldPlaying

\* A source started by a component that is unmounted is not stopped (there
\* is no effect clean-up that stops it): it plays on.
OrphansAfterRender(wasShown, shown, oldPlaying, oldOrphans) ==
    IF wasShown /\ ~shown /\ oldPlaying THEN oldOrphans + 1 ELSE oldOrphans

\* The re-render that ends every action of the App (the variables of the
\* other parts of the module are not the App's).
Commit ==
    /\ audioBuffer' = BufferAfterRender(
           ResultCardShown(isMobile, mobileView, isLoading, error, analysisResult),
           ResultCardShown(isMobile', mobileView', isLoading', error', analysisResult'),
           audioData, audioData', audioBuffer)
    /\ isPlaying' = PlayingAfterRender(
           ResultCardShown(isMobile, mobileView, isLoading, error, analysisResult),
           ResultCardShown(isMobile', mobileView', isLoading', error', analysisResult'),
           isPlaying)
    /\ orphans' = OrphansAfterRender(
           ResultCardShown(isMobile, mobileView, isLoading, error, analysisResult),
           ResultCardShown(isMobile', mobileView', isLoading', error', analysisResult'),
           isPlaying, orphans)
    /\ UNCHANGED <<parseVars, stripVars, decodeVars, renderVars, relayVars>>

(***************************************************************************)
(* History.                                                                *)
(***************************************************************************)
\* Run r is referred to by the state after the step: it is in flight, or its
\* result, payload or buffer is held.
Relevant(r) ==
    \/ runs'[r].pc \in {"encoding", "analyzing", "synthesizing"}
    \/ analysisResult' = <<r>>
    \/ audioData' # Null /\ audioData'[1] = r
    \/ audioBuffer' # Null /\ audioBuffer'[1] = r

StillRelevant(S) == {r \in S : Relevant(r)}

(***************************************************************************)
(* App handlers.                                                           *)
(***************************************************************************)
\* Mutant of ResetValues: resetState without setFile(null).
ResetValuesKeepFile == [file |-> file, analysisResult |-> Null, audioData |-> Null,
                        error |-> Null, audioError |-> Null, isLoading |-> FALSE,
                        isGeneratingAudio |-> FALSE]

\* resetState: the values it leaves in <<file, analysisResult, audioData,
\* error, audioError, isLoading, isGeneratingAudio>>.
ResetValues == [file |-> Null, analysisResult |-> Null, audioData |-> Null,
                error |-> Null, audioError |-> Null, isLoading |-> FALSE,
                isGeneratingAudio |-> FALSE]

\* The Analyze button's disabled attribute.
AnalyzeDisabled == file = Null \/ isLoading \/ isGeneratingAudio

\* The language select's disabled attribute.
LanguageSelectDisabled == isLoading \/ isGeneratingAudio

\* onChange of the language select.
setTtsLanguage(l) ==
    /\ UploadSectionShown(isMobile, mobileView)
    /\ ~LanguageSelectDisabled
    /\ l # ttsLanguage
    /\ ttsLanguage' = l
    /\ UNCHANGED <<file, analysisResult, audioData, isLoading, error,
                   isGeneratingAudio, audioError, isMobile, mobileView,
                   runs, nextRun, invalidated, staleSynth, clean>>
    /\ Commit

\* handleFileChange(selectedFile) with a file: resetState, then setFile.
handleFileChange(f) ==
    /\ UploadSectionShown(isMobile, mobileView)
    /\ file' = f
    /\ analysisResult' = ResetValues.analysisResult
    /\ audioData' = ResetValues.audioData
    /\ error' = ResetValues.error
    /\ audioError' = ResetValues.audioError
    /\ isLoading' = ResetValues.isLoading
    /\ isGeneratingAudio' = ResetValues.isGeneratingAudio
    /\ UNCHANGED <<ttsLanguage, isMobile, mobileView, runs, nextRun, clean>>
    /\ Commit
    /\ invalidated' = StillRelevant(invalidated \cup InFlightRuns)
    /\ staleSynth' = StillRelevant(staleSynth \cup SynthesizingRuns)

\* handleStartNewAnalysis: the button is rendered on mobile, in the result
\* section, when there is a result or an error.
handleStartNewAnalysis ==
    /\ isMobile /\ ResultSectionShown(isMobile, mobileView)
    /\ (analysisResult # Null \/ error # Null)
    /\ file' = ResetValues.file
    /\ analysisResult' = ResetValues.analysisResult
    /\ audioData' = ResetValues.audioData
    /\ error' = ResetValues.error
    /\ audioError' = ResetValues.audioError
    /\ isLoading' = ResetValues.isLoading
    /\ isGeneratingAudio' = ResetValues.isGeneratingAudio
    /\ mobileView' = "upload"
    /\ UNCHANGED <<ttsLanguage, isMobile, runs, nextRun, clean>>
    /\ Commit
    /\ invalidated' = StillRelevant(invalidated \cup InFlightRuns)
    /\ staleSynth' = StillRelevant(staleSynth \cup SynthesizingRuns)

\* handleAnalyzeClick up to its first await (fileToBase64): resetState,
\* setIsLoading(true), switch to the result view on mobile.  The closure keeps
\* the file and the ttsLanguage of the render the click was made in.
handleAnalyzeClick ==
    /\ UploadSectionShown(isMobile, mobileView)
    /\ ~AnalyzeDisabled
    /\ nextRun <= MaxRuns
    /\ file' = ResetValues.file
    /\ analysisResult' = ResetValues.analysisResult
    /\ audioData' = ResetValues.audioData
    /\ error' = ResetValues.error
    /\ audioError' = ResetValues.audioError
    /\ isGeneratingAudio' = ResetValues.isGeneratingAudio
    /\ isLoading' = TRUE
    /\ mobileView' = IF isMobile THEN "result" ELSE mobileView
    /\ runs' = [runs EXCEPT ![nextRun] =
                   [IdleRun EXCEPT !.pc = "encoding", !.lang = ttsLanguage]]
    /\ nextRun' = nextRun + 1
    /\ clean' = nextRun
    /\ UNCHANGED <<ttsLanguage, isMobile>>
    /\ Commit
    /\ invalidated' = StillRelevant(invalidated)
    /\ staleSynth' = StillRelevant(staleSynth)

\* Messages the catch blocks store (Error.message of what was thrown).
EncodeFailureMessage == "Failed to read the file."
AnalysisFailureMessage == "Failed to analyze the media. The model could not identify the location."
AudioFailureMessage == "Failed to generate audio summary."

\* Mutant of TextToSpeak: the branches of the conditional exchanged.
TextToSpeakSwapped(lang, result) ==
    IF lang = "en" THEN <<"ru", result[1]>> ELSE <<"en", result[1]>>

\* const textToSpeak = ttsLanguage === 'en' ? result.en : result.ru
\* <<l, r>> stands for the field l of the result returned to run r.
TextToSpeak(lang, result) ==
    IF lang = "en" THEN <<"en", result[1]>> ELSE <<"ru", result[1]>>

\* A continuation of run r has written App state: the reset of another run
\* is no longer untouched.
Touch(r) ==
    /\ clean' = IF clean = r /\ runs'[r].pc # "done" THEN clean ELSE 0
    /\ invalidated' = StillRelevant(invalidated)
    /\ staleSynth' = StillRelevant(staleSynth)

\* fileToBase64 resolved: analyzeMedia is called.
EncodeResolved(r) ==
    /\ runs[r].pc = "encoding"
    /\ runs' = [runs EXCEPT ![r].pc = "analyzing"]
    /\ UNCHANGED <<file, ttsLanguage, analysisResult, audioData, isLoading, error,
                   isGeneratingAudio, audioError, isMobile, mobileView,
                   nextRun, invalidated, staleSynth, clean>>
    /\ Commit

\* Mutant of AnalysisCatch: the catch block without setIsLoading(false).
AnalysisCatchKeepsLoading(r, message) ==
    /\ error' = <<message>>
    /\ runs' = [runs EXCEPT ![r] = DoneRun]
    /\ UNCHANGED <<file, ttsLanguage, analysisResult, audioData, isLoading,
                   isGeneratingAudio, audioError, isMobile, mobileView,
                   nextRun>>
    /\ Commit
    /\ Touch(r)

\* The outer catch: setError(message), setIsLoading(false).
AnalysisCatch(r, message) ==
    /\ error' = <<message>>
    /\ isLoading' = FALSE
    /\ runs' = [runs EXCEPT ![r] = DoneRun]
    /\ UNCHANGED <<file, ttsLanguage, analysisResult, audioData,
                   isGeneratingAudio, audioError, isMobile, mobileView,
                   nextRun>>
    /\ Commit
    /\ Touch(r)

\* fileToBase64 rejected.
EncodeRejected(r) ==
    /\ runs[r].pc = "encoding"
    /\ AnalysisCatch(r, EncodeFailureMessage)

\* analyzeMedia rejected.
AnalyzeRejected(r) ==
    /\ runs[r].pc = "analyzing"
    /\ AnalysisCatch(r, AnalysisFailureMessage)

\* Mutant of LoadingAfterResult: no setIsLoading(false) after the result.
LoadingAfterResultKept == isLoading

\* setIsLoading(false) once the result is there.
LoadingAfterResult == FALSE

\* Mutant of GeneratingAfterAudio: no finally block.
GeneratingAfterAudioKept == isGeneratingAudio

\* finally { setIsGeneratingAudio(false) }
GeneratingAfterAudio == FALSE

\* analyzeMedia resolved with a result: setAnalysisResult(result),
\* setIsLoading(false), setIsGeneratingAudio(true), generateAudio(textToSpeak).
AnalyzeResolved(r) ==
    /\ runs[r].pc = "analyzing"
    /\ analysisResult' = <<r>>
    /\ isLoading' = LoadingAfterResult
    /\ isGeneratingAudio' = TRUE
    /\ runs' = [runs EXCEPT ![r].pc = "synthesizing",
                            ![r].result = <<r>>,
                            ![r].synth = TextToSpeak(runs[r].lang, <<r>>)]
    /\ UNCHANGED <<file, ttsLanguage, audioData, error, audioError,
                   isMobile, mobileView, nextRun>>
    /\ Commit
    /\ Touch(r)

\* generateAudio resolved with a payload (ok: whether it decodes):
\* setAudioData(audio), then finally setIsGeneratingAudio(false).
SynthResolved(r, ok) ==
    /\ runs[r].pc = "synthesizing"
    /\ audioData' = <<r, ok>>
    /\ isGeneratingAudio' = GeneratingAfterAudio
    /\ runs' = [runs EXCEPT ![r] = DoneRun]
    /\ UNCHANGED <<file, ttsLanguage, analysisResult, isLoading, error, audioError,
                   isMobile, mobileView, nextRun>>
    /\ Commit
    /\ Touch(r)

\* generateAudio rejected: setAudioError(message), then finally
\* setIsGeneratingAudio(false).
SynthRejected(r) ==
    /\ runs[r].pc = "synthesizing"
    /\ audioError' = <<AudioFailureMessage>>
    /\ isGeneratingAudio' = GeneratingAfterAudio
    /\ runs' = [runs EXCEPT ![r] = DoneRun]
    /\ UNCHANGED <<file, ttsLanguage, analysisResult, audioData, isLoading, error,
                   isMobile, mobileView, nextRun>>
    /\ Commit
    /\ Touch(r)

AppInit ==
    /\ file = Null
    /\ ttsLanguage = "en"
    /\ analysisResult = Null
    /\ audioData = Null
    /\ isLoading = FALSE
    /\ error = Null
    /\ isGeneratingAudio = FALSE
    /\ audioError = Null
    /\ isMobile \in BOOLEAN
    /\ mobileView = "upload"
    /\ audioBuffer = Null
    /\ isPlaying = FALSE
    /\ orphans = 0
    /\ runs = [r \in RunIds |-> IdleRun]
    /\ nextRun = 1
    /\ invalidated = {}
    /\ staleSynth = {}
    /\ clean = 0

(***************************************************************************)
(* ResultCard: playback.                                                   *)
(***************************************************************************)
\* disabled={!audioBuffer || isPlaying || isGeneratingAudio}
PlayDisabled == audioBuffer = Null \/ isPlaying \/ isGeneratingAudio

PlayFrame ==
    UNCHANGED <<file, ttsLanguage, analysisResult, audioData, isLoading, error,
                isGeneratingAudio, audioError, isMobile, mobileView, audioBuffer,
                runs, nextRun, invalidated, staleSynth, clean,
                parseVars, stripVars, decodeVars, renderVars, relayVars>>

\* A click on the play button: a source is created and started, and isPlaying
\* set, when there is a buffer and isPlaying is false.
handlePlayAudio ==
    /\ ResultCardShown(isMobile, mobileView, isLoading, error, analysisResult)
    /\ ~PlayDisabled
    /\ audioBuffer # Null
    /\ ~isPlaying
    /\ isPlaying' = TRUE
    /\ UNCHANGED orphans
    /\ PlayFrame

\* source.onended of the source the rendered ResultCard started.
SourceEnded ==
    /\ isPlaying
    /\ isPlaying' = FALSE
    /\ UNCHANGED orphans
    /\ PlayFrame

\* source.onended of a source whose ResultCard is gone: its setIsPlaying(false)
\* changes nothing.
OrphanEnded ==
    /\ orphans > 0
    /\ orphans' = orphans - 1
    /\ UNCHANGED isPlaying
    /\ PlayFrame

PlayNext ==
    \/ handlePlayAudio
    \/ SourceEnded
    \/ OrphanEnded

AppNext ==
    \/ \E l \in Languages : setTtsLanguage(l)
    \/ \E f \in Files : handleFileChange(f)
    \/ handleStartNewAnalysis
    \/ handleAnalyzeClick
    \/ \E r \in RunIds : EncodeResolved(r)
    \/ \E r \in RunIds : EncodeRejected(r)
    \/ \E r \in RunIds : AnalyzeResolved(r)
    \/ \E r \in RunIds : AnalyzeRejected(r)
    \/ \E r \in RunIds, ok \in BOOLEAN : SynthResolved(r, ok)
    \/ \E r \in RunIds : SynthRejected(r)

(***************************************************************************)
(* Text: a string is a sequence of one-character strings.                  *)
(***************************************************************************)
\* What \s and String.prototype.trim take as white space (of the characters used).
WhiteSpace == {" ", "\n"}

\* What \d matches (of the characters used).
Digits == {"1", "2"}

Min(S) == CHOOSE x \in S : \A y \in S : x <= y

Max(S) == CHOOSE x \in S : \A y \in S : y <= x

\* pat occurs in s at index i.
HasAt(s, i, pat) ==
    /\ i >= 1 /\ i + Len(pat) - 1 <= Len(s)
    /\ SubSeq(s, i, i + Len(pat) - 1) = pat

\* The index of the first character at or after i that is not in set C, or Len(s) + 1.
SkipWhile(s, i, C) == Min({j \in i..Len(s) : s[j] \notin C} \cup {Len(s) + 1})

\* String.prototype.trim
Trim(s) ==
    LET inked == {i \in 1..Len(s) : s[i] \notin WhiteSpace}
    IN  IF inked = {} THEN <<>> ELSE SubSeq(s, Min(inked), Max(inked))

(***************************************************************************)
(* analyzeMedia: the parsing of the model's reply.                         *)
(***************************************************************************)
\* The backquote character (written out: the character itself would open a
\* quoted span of the module's text).
Backquote == "backquote"

\* Three backquotes.
Fence == <<Backquote, Backquote, Backquote>>

JsonTag == <<"j", "s", "o", "n">>

NoMatch == <<"no match">>

\* text.match(/FENCE(json)?\s*([\s\S]*?)\s*FENCE/), FENCE being three
\* backquotes, tried at index i: <<"match", group 2>> or NoMatch.  (json)? and
\* the first \s* are greedy, group 2 is lazy: it ends at the first index from
\* which white space and then a fence follow.
FenceMatchAt(s, i) ==
    IF ~HasAt(s, i, Fence) THEN NoMatch
    ELSE LET afterTag == IF HasAt(s, i + 3, JsonTag) THEN i + 7 ELSE i + 3
             start    == SkipWhile(s, afterTag, WhiteSpace)
             ends     == {q \in start..(Len(s) + 1) :
                             HasAt(s, SkipWhile(s, q, WhiteSpace), Fence)}
         IN  IF ends = {} THEN NoMatch
             ELSE <<"match", SubSeq(s, start, Min(ends) - 1)>>

\* text.match(...): the leftmost match.
FenceMatch(s) ==
    LET at == {i \in 1..Len(s) : FenceMatchAt(s, i) # NoMatch}
    IN  IF at = {} THEN NoMatch ELSE FenceMatchAt(s, Min(at))

\* let text = response.text.trim();
\* if (jsonMatch && jsonMatch[2]) text = jsonMatch[2];
ReplyText(reply) ==
    LET trimmed == Trim(reply)
        jsonMatch == FenceMatch(trimmed)
    IN  IF jsonMatch # NoMatch /\ jsonMatch[2] # <<>> THEN jsonMatch[2] ELSE trimmed

\* Mutant of StripFrom: \[\d*\] in place of \[\d+\].
RECURSIVE StripFromStar(_, _)
StripFromStar(s, i) ==
    IF i > Len(s) THEN <<>>
    ELSE LET j == SkipWhile(s, i + 1, Digits)
         IN  IF s[i] = "[" /\ j <= Len(s) /\ s[j] = "]"
             THEN StripFromStar(s, j + 1)
             ELSE <<s[i]>> \o StripFromStar(s, i + 1)

\* s.replace(/\[\d+\]/g, "") from index i on: the scan goes left to right, a
\* match is dropped and the scan goes on after it, any other character is kept.
RECURSIVE StripFrom(_, _)
StripFrom(s, i) ==
    IF i > Len(s) THEN <<>>
    ELSE LET j == SkipWhile(s, i + 1, Digits)
         IN  IF s[i] = "[" /\ j > i + 1 /\ j <= Len(s) /\ s[j] = "]"
             THEN StripFrom(s, j + 1)
             ELSE <<s[i]>> \o StripFrom(s, i + 1)

\* (field).replace(/\[\d+\]/g, "").trim()
CleanField(s) == Trim(StripFrom(s, 1))

(***************************************************************************)
(* JSON.parse, for the JSON texts made of objects, strings without escapes *)
(* and unsigned integers.  A value is <<"string", characters>>,            *)
(* <<"number", digits>> or <<"object", members>>, members being a sequence *)
(* of <<key, value>>.                                                      *)
(***************************************************************************)
Quote == "\""

ParseFail == [ok |-> FALSE]

Parsed(v, next) == [ok |-> TRUE, value |-> v, next |-> next]

\* A string literal starting at s[i] = Quote: up to the next quote; a raw
\* line break inside it is a syntax error.
ParseString(s, i) ==
    LET closing == {j \in (i + 1)..Len(s) : s[j] = Quote}
    IN  IF closing = {} THEN ParseFail
        ELSE LET content == SubSeq(s, i + 1, Min(closing) - 1)
             IN  IF \E k \in 1..Len(content) : content[k] = "\n" THEN ParseFail
                 ELSE Parsed(<<"string", content>>, Min(closing) + 1)

\* A number starting at the digit s[i].
ParseNumber(s, i) ==
    LET j == SkipWhile(s, i, Digits)
    IN  Parsed(<<"number", SubSeq(s, i, j - 1)>>, j)

RECURSIVE ParseValue(_, _)
RECURSIVE ParseMembers(_, _, _)

\* The members of an object from index k (a key is expected there) on.
ParseMembers(s, k, acc) ==
    IF k > Len(s) \/ s[k] # Quote THEN ParseFail
    ELSE LET key == ParseString(s, k)
         IN  IF ~key.ok THEN ParseFail
             ELSE LET colon == SkipWhile(s, key.next, WhiteSpace)
                  IN  IF colon > Len(s) \/ s[colon] # ":" THEN ParseFail
                      ELSE LET val == ParseValue(s, SkipWhile(s, colon + 1, WhiteSpace))
                           IN  IF ~val.ok THEN ParseFail
                               ELSE LET sep == SkipWhile(s, val.next, WhiteSpace)
                                        all == Append(acc, <<key.value[2], val.value>>)
                                    IN  IF sep > Len(s) THEN ParseFail
                                        ELSE IF s[sep] = "}" THEN Parsed(<<"object", all>>, sep + 1)
                                        ELSE IF s[sep] = ","
                                             THEN ParseMembers(s, SkipWhile(s, sep + 1, WhiteSpace), all)
                                        ELSE ParseFail

\* A value starting at index i.
ParseValue(s, i) ==
    IF i > Len(s) THEN ParseFail
    ELSE IF s[i] = Quote THEN ParseString(s, i)
    ELSE IF s[i] \in Digits THEN ParseNumber(s, i)
    ELSE IF s[i] = "{"
         THEN LET k == SkipWhile(s, i + 1, WhiteSpace)
              IN  IF k <= Len(s) /\ s[k] = "}" THEN Parsed(<<"object", <<>>>>, k + 1)
                  ELSE ParseMembers(s, k, <<>>)
    ELSE ParseFail

SyntaxError == <<"SyntaxError">>

\* JSON.parse(s): <<"ok", value>> or SyntaxError.
JsonParse(s) ==
    LET r == ParseValue(s, SkipWhile(s, 1, WhiteSpace))
    IN  IF r.ok /\ SkipWhile(s, r.next, WhiteSpace) = Len(s) + 1
        THEN <<"ok", r.value>>
        ELSE SyntaxError

Undefined == <<"undefined">>

\* v[key] of a parsed value: of an object the last member of that key;
\* undefined on a string or a number.
GetProp(v, key) ==
    IF v[1] # "object" THEN Undefined
    ELSE LET at == {i \in 1..Len(v[2]) : v[2][i][1] = key}
         IN  IF at = {} THEN Undefined ELSE v[2][Max(at)][2]

\* v || ""
OrEmpty(v) ==
    IF v = Undefined \/ v = <<"string", <<>>>> THEN <<"string", <<>>>> ELSE v

TypeError == <<"TypeError">>

\* (parsedResult[key] || "").replace(/\[\d+\]/g, "").trim(): the cleaned text,
\* or TypeError when the value has no replace method.
CleanProp(parsed, key) ==
    LET v == OrEmpty(GetProp(parsed, key))
    IN  IF v[1] = "string" THEN CleanField(v[2]) ELSE TypeError

(***************************************************************************)
(* The replies of the model tried: JSON texts, bare or in a fenced block.  *)
(***************************************************************************)
KeyEn == <<"e", "n">>

KeyRu == <<"r", "u">>

\* Texts tried as the value of a field.
FieldStrings ==
    { <<>>, <<"a">>, <<" ", "a">>, <<"[", "1", "]">>, <<"a", "[", "1", "]">>,
      <<"a">> \o Fence, Fence \o <<"a">> \o Fence }

Absent == <<"absent">>

\* What a reply holds for a key: nothing, a string, a number.
FieldChoices ==
    {Absent} \cup {<<"string", t>> : t \in FieldStrings} \cup {<<"number", <<"1">>>>}

\* The object with those fields.
ObjectOf(en, ru) ==
    <<"object",
      (IF en = Absent THEN <<>> ELSE << <<KeyEn, en>> >>)
         \o (IF ru = Absent THEN <<>> ELSE << <<KeyRu, ru>> >>)>>

ReplyValues ==
    {ObjectOf(en, ru) : en \in FieldChoices, ru \in FieldChoices}
        \cup {<<"number", <<"1">>>>, <<"string", <<"a">>>>}

RECURSIVE Stringify(_)
RECURSIVE StringifyMembers(_, _)

\* The JSON text of a value (a space after each colon).
Stringify(v) ==
    IF v[1] = "string" THEN <<Quote>> \o v[2] \o <<Quote>>
    ELSE IF v[1] = "number" THEN v[2]
    ELSE <<"{">> \o StringifyMembers(v[2], 1) \o <<"}">>

StringifyMembers(members, i) ==
    IF i > Len(members) THEN <<>>
    ELSE <<Quote>> \o members[i][1] \o <<Quote, ":", " ">> \o Stringify(members[i][2])
            \o (IF i < Len(members) THEN <<",">> ELSE <<>>)
            \o StringifyMembers(members, i + 1)

\* Texts that are no JSON.
NotJson == { <<"a">>, <<"{">>, <<"{", Quote, "e", "n", Quote, "}">> }

ReplyBodies == {Stringify(v) : v \in ReplyValues} \cup NotJson

WrapModes == {"bare", "fenced", "fencedJsonTag"}

\* The reply made of a body: as it is, or in a single fenced block without a
\* tag or with the tag json (and white space around it).
Wrap(mode, body) ==
    IF mode = "bare" THEN body
    ELSE IF mode = "fenced" THEN Fence \o body \o Fence
    ELSE <<" ">> \o Fence \o JsonTag \o <<"\n">> \o body \o <<"\n">> \o Fence \o <<"\n">>

(***************************************************************************)
(* analyzeMedia, from the model call on.                                   *)
(***************************************************************************)
ParseFrame == UNCHANGED <<appVars, stripVars, decodeVars, renderVars, relayVars>>

\* await ai.models.generateContent(...) resolved with a reply.
ModelReplied(mode, body) ==
    /\ parsePc = "calling"
    /\ responseText' = Wrap(mode, body)
    /\ replyBody' = body
    /\ replyWrap' = mode
    /\ parsePc' = "replied"
    /\ UNCHANGED <<text, parsedResult, returned>>
    /\ ParseFrame

\* await ai.models.generateContent(...) rejected: the catch throws the fixed Error.
ModelRejected ==
    /\ parsePc = "calling"
    /\ parsePc' = "thrown"
    /\ UNCHANGED <<responseText, text, parsedResult, returned, replyBody, replyWrap>>
    /\ ParseFrame

\* The trim and the removal of the fence.
ExtractText ==
    /\ parsePc = "replied"
    /\ text' = ReplyText(responseText)
    /\ parsePc' = "extracted"
    /\ UNCHANGED <<responseText, parsedResult, returned, replyBody, replyWrap>>
    /\ ParseFrame

\* const parsedResult = JSON.parse(text); a SyntaxError goes to the catch.
ParseJson ==
    /\ parsePc = "extracted"
    /\ IF JsonParse(text) = SyntaxError
       THEN parsePc' = "thrown" /\ UNCHANGED parsedResult
       ELSE parsePc' = "parsed" /\ parsedResult' = JsonParse(text)[2]
    /\ UNCHANGED <<responseText, text, returned, replyBody, replyWrap>>
    /\ ParseFrame

\* cleanEn, cleanRu and the return; a TypeError goes to the catch.
CleanAndReturn ==
    /\ parsePc = "parsed"
    /\ LET cleanEn == CleanProp(parsedResult, KeyEn)
           cleanRu == CleanProp(parsedResult, KeyRu)
       IN  IF cleanEn = TypeError \/ cleanRu = TypeError
           THEN parsePc' = "thrown" /\ UNCHANGED returned
           ELSE parsePc' = "returned" /\ returned' = [en |-> cleanEn, ru |-> cleanRu]
    /\ UNCHANGED <<responseText, text, parsedResult, replyBody, replyWrap>>
    /\ ParseFrame

ParseIdle ==
    /\ parsePc = "idle"
    /\ responseText = <<>>
    /\ text = <<>>
    /\ parsedResult = Undefined
    /\ returned = [en |-> <<>>, ru |-> <<>>]
    /\ replyBody = <<>>
    /\ replyWrap = "bare"

ParseNext ==
    \/ \E mode \in WrapModes, body \in ReplyBodies : ModelReplied(mode, body)
    \/ ModelRejected
    \/ ExtractText
    \/ ParseJson
    \/ CleanAndReturn

(***************************************************************************)
(* One citation clean-up, for every text up to MaxFieldLen characters.     *)
(***************************************************************************)
\* Longest field text tried.
MaxFieldLen == 6

StripAlphabet == {"[", "]", "1", "a", " "}

StripInputs == UNION {[1..n -> StripAlphabet] : n \in 0..MaxFieldLen}

\* cleanEn = (parsedResult.en || "").replace(/\[\d+\]/g, "").trim() on a string.
CleanStep ==
    /\ stripPc = "input"
    /\ stripOutput' = CleanField(stripInput)
    /\ stripPc' = "cleaned"
    /\ UNCHANGED <<stripInput, appVars, parseVars, decodeVars, renderVars, relayVars>>

StripNext == CleanStep

(***************************************************************************)
(* ResultCard: decode, decodeAudioData and the processAudio effect.        *)
(***************************************************************************)
\* Longest payload tried, in base64 digits.
MaxPayloadLen == 6

\* The values of the base64 digits tried (A, I, 3, /).
Base64Values == {0, 8, 55, 63}

\* A payload: its base64 digits, the number of '=' after them and the number
\* of white space characters in it.
Payloads ==
    {[digits |-> d, pad |-> k, blank |-> w] :
        d \in UNION {[1..n -> Base64Values] : n \in 0..MaxPayloadLen},
        k \in 0..2, w \in 0..1}

InvalidCharacterError == <<"InvalidCharacterError">>

\* Bit j (from 0, most significant first) of the digits.
BitOf(digits, j) == (digits[(j \div 6) + 1] \div (2 ^ (5 - (j % 6)))) % 2

\* Byte k (from 1) of the bits of the digits.
ByteOf(digits, k) ==
    LET b(x) == BitOf(digits, 8 * (k - 1) + x)
    IN  128 * b(0) + 64 * b(1) + 32 * b(2) + 16 * b(3)
          + 8 * b(4) + 4 * b(5) + 2 * b(6) + b(7)

\* atob(base64): white space is dropped; one or two '=' are dropped when the length is a multiple of
\* 4; a length of 4n + 1, or a '=' left, is an error; the bits that do not
\* fill a byte are dropped.
Atob(audio) ==
    LET total == Len(audio.digits) + audio.pad
        padOk == audio.pad = 0 \/ total % 4 = 0
    IN  IF ~padOk \/ Len(audio.digits) % 4 = 1 THEN InvalidCharacterError
        ELSE <<"ok", [k \in 1..((Len(audio.digits) * 6) \div 8) |-> ByteOf(audio.digits, k)]>>

\* decode(base64): the bytes of atob's binary string.
decode(audio) == Atob(audio)

RangeError == <<"RangeError">>

\* Mutant of Int16Length: the view is cut to the whole samples.
Int16LengthTruncated(byteLength) == <<"ok", byteLength \div 2>>

\* new Int16Array(data.buffer).length: a byte length that is no multiple of 2
\* is a RangeError.
Int16Length(byteLength) ==
    IF byteLength % 2 # 0 THEN RangeError ELSE <<"ok", byteLength \div 2>>

\* Mutant of Int16At: the sample read as unsigned (Uint16Array).
Uint16At(data, i) == data[2 * i + 1] + 256 * data[2 * i + 2]

\* dataInt16[i] (i from 0): bytes 2i and 2i+1, low byte first, as a signed
\* 16-bit integer.
Int16At(data, i) ==
    LET u == data[2 * i + 1] + 256 * data[2 * i + 2]
    IN  IF u >= 32768 THEN u - 65536 ELSE u

\* The divisor of decodeAudioData.
SampleScale == 32768

\* dataInt16[i] / 32768.0, as <<numerator, denominator>>.
Normalized(sample) == <<sample, SampleScale>>

DecodeFrame == UNCHANGED <<appVars, parseVars, stripVars, renderVars, relayVars>>

\* processAudio up to decode(audioData): nothing is done for an empty
\* audioData; an error of atob goes to the catch.
ProcessAudio ==
    /\ decodePc = "start"
    /\ IF payload.digits = <<>> /\ payload.pad = 0 /\ payload.blank = 0
       THEN decodePc' = "skipped" /\ UNCHANGED bytes
       ELSE IF decode(payload) = InvalidCharacterError
            THEN decodePc' = "caught" /\ UNCHANGED bytes
            ELSE decodePc' = "decoded" /\ bytes' = decode(payload)[2]
    /\ UNCHANGED <<payload, frameCount, channelData, loopIndex, decodedBuffer, bytesRead>>
    /\ DecodeFrame

\* decodeAudioData up to its loop: the Int16Array view and the buffer (zero
\* filled; createBuffer refuses a length of 0).
CreateBuffer ==
    /\ decodePc = "decoded"
    /\ LET dataInt16 == Int16Length(Len(bytes))
       IN  IF dataInt16 = RangeError \/ dataInt16[2] = 0
           THEN decodePc' = "caught" /\ UNCHANGED <<frameCount, channelData>>
           ELSE /\ decodePc' = "looping"
                /\ frameCount' = dataInt16[2]
                /\ channelData' = [i \in 1..dataInt16[2] |-> <<0, 1>>]
    /\ loopIndex' = 0
    /\ UNCHANGED <<payload, bytes, decodedBuffer, bytesRead>>
    /\ DecodeFrame

\* One turn of the loop: channelData[i] = dataInt16[i] / 32768.0
LoopStep ==
    /\ decodePc = "looping"
    /\ loopIndex < frameCount
    /\ channelData' = [channelData EXCEPT ![loopIndex + 1] = Normalized(Int16At(bytes, loopIndex))]
    /\ bytesRead' = bytesRead \cup {2 * loopIndex, 2 * loopIndex + 1}
    /\ loopIndex' = loopIndex + 1
    /\ UNCHANGED <<decodePc, payload, bytes, frameCount, decodedBuffer>>
    /\ DecodeFrame

\* The loop has ended: the buffer is returned and setAudioBuffer(buffer) runs.
SetAudioBuffer ==
    /\ decodePc = "looping"
    /\ loopIndex >= frameCount
    /\ decodedBuffer' = channelData
    /\ decodePc' = "set"
    /\ UNCHANGED <<payload, bytes, frameCount, channelData, loopIndex, bytesRead>>
    /\ DecodeFrame

DecodeNext ==
    \/ ProcessAudio
    \/ CreateBuffer
    \/ LoopStep
    \/ SetAudioBuffer

(***************************************************************************)
(* ResultCard: the list of sources.                                        *)
(***************************************************************************)
\* Longest source list tried.
MaxSources == 2

Uris == {Undefined, <<>>, <<"u">>}

Titles == {Undefined, <<"t">>}

\* source.web or source.maps left out.
NoVariant == [present |-> FALSE, uri |-> Undefined, title |-> Undefined]

Variants ==
    {NoVariant} \cup {[present |-> TRUE, uri |-> u, title |-> t] : u \in Uris, t \in Titles}

\* GroundingChunk: web and maps both optional, uri and title optional in each.
GroundingChunks == [web : Variants, maps : Variants]

SourceLists == UNION {[1..n -> GroundingChunks] : n \in 0..MaxSources}

\* !v for a value that is a string or undefined.
IsFalsy(v) == v = Undefined \/ v = <<>>

\* const info = source.web || source.maps
Info(source) == IF source.web.present THEN source.web ELSE source.maps

\* Mutant of SkipSource: only a missing variant is skipped.
SkipSourceNoUriCheck(info) == ~info.present

\* if (!info || !info.uri) return null
SkipSource(info) == ~info.present \/ IsFalsy(info.uri)

SourceLinkLabel == <<"Source Link">>

NullItem == [kind |-> "null", key |-> 0, href |-> Undefined, label |-> Undefined]

\* Reading info.uri of an undefined info throws.
FaultItem == [kind |-> "fault", key |-> 0, href |-> Undefined, label |-> Undefined]

\* The callback of result.sources.map on the entry of an index (from 0).
SourceItem(source, index) ==
    LET info == Info(source)
    IN  IF SkipSource(info) THEN NullItem
        ELSE IF ~info.present THEN FaultItem
        ELSE [kind |-> "li", key |-> index, href |-> info.uri,
              label |-> IF IsFalsy(info.title) THEN SourceLinkLabel ELSE info.title]

RenderFrame == UNCHANGED <<appVars, parseVars, stripVars, decodeVars, relayVars>>

\* result.sources.length > 0 && ( ... )
RenderSources ==
    /\ renderPc = "start"
    /\ renderPc' = IF Len(sources) > 0 THEN "mapping" ELSE "done"
    /\ UNCHANGED <<sources, renderIndex, items, links>>
    /\ RenderFrame

\* One call of the map callback.
MapSource ==
    /\ renderPc = "mapping"
    /\ renderIndex < Len(sources)
    /\ LET item == SourceItem(sources[renderIndex + 1], renderIndex)
       IN  IF item.kind = "fault"
           THEN renderPc' = "fault" /\ UNCHANGED items
           ELSE renderPc' = "mapping" /\ items' = Append(items, item)
    /\ renderIndex' = renderIndex + 1
    /\ UNCHANGED <<sources, links>>
    /\ RenderFrame

\* The <ul> is rendered: the null children give nothing.
ShowList ==
    /\ renderPc = "mapping"
    /\ renderIndex >= Len(sources)
    /\ links' = SelectSeq(items, LAMBDA item : item.kind = "li")
    /\ renderPc' = "done"
    /\ UNCHANGED <<sources, renderIndex, items>>
    /\ RenderFrame

RenderNext ==
    \/ RenderSources
    \/ MapSource
    \/ ShowList

RenderIdle ==
    /\ renderPc = "idle"
    /\ sources = <<>>
    /\ renderIndex = 0
    /\ items = <<>>
    /\ links = <<>>

(***************************************************************************)
(* The client calls (fetch + handleApiResponse) and the relay handler.     *)
(***************************************************************************)
\* A property that is not there.
Missing == "undefined"

\* A request: req.method, whether req.body is an object, and the properties of
\* the body and of its payload (Missing: left out; mimeType "number": a value
\* that is no string).
Requests ==
    [method : {"POST", "GET"},
     hasBody : BOOLEAN,
     action : {"analyze", "audio", "other"},
     hasPayload : BOOLEAN,
     base64Data : {Missing, "d"},
     mimeType : {Missing, "image/jpeg", "number"},
     text : {Missing, "", "t"}]

\* The requests analyzeMedia and generateAudio of the client send.
ClientRequests ==
    {r \in Requests :
        /\ r.method = "POST" /\ r.hasBody /\ r.hasPayload
        /\ \/ r.action = "analyze" /\ r.base64Data = "d" /\ r.mimeType = "image/jpeg"
           \/ r.action = "audio" /\ r.text # Missing}

\* The texts written in the code.
MethodNotAllowed == "Method Not Allowed"
MissingAnalyzeFields == "Missing base64Data or mimeType for analysis"
MissingText == "Missing text for audio generation"
InvalidAction == "Invalid action specified. Use \"analyze\" or \"audio\"."
InternalServerError == "Internal Server Error"
UnknownErrorMessage == "An unknown error occurred."
CommunicationFailureMessage == "Failed to communicate with the server."
NoAudioMessage == "No audio data received from server."

\* The message of the TypeError the runtime throws in the handler
\* (destructuring of undefined, startsWith of a value that is no string).
RawHandlerError == "TypeError: (text of the runtime)"

\* The message of the TypeError a failed fetch rejects with.
RawFetchError == "TypeError: (text of the browser)"

NoResponse == [status |-> 0, json |-> FALSE, error |-> Missing, message |-> Missing, data |-> Missing]

\* response.status(status).json({error, message})
ErrorResponse(status, errorText, message) ==
    [status |-> status, json |-> TRUE, error |-> errorText, message |-> message, data |-> Missing]

\* response.status(200).json(result) / response.status(200).json({audio})
SuccessResponse(data) ==
    [status |-> 200, json |-> TRUE, error |-> Missing, message |-> Missing, data |-> data]

\* A response that does not come from the handler and has no JSON body.
GatewayResponse == [status |-> 502, json |-> FALSE, error |-> Missing, message |-> Missing, data |-> Missing]

\* !v of a string or undefined.
NotGiven(v) == v = Missing \/ v = ""

RelayFrame == UNCHANGED <<appVars, parseVars, stripVars, decodeVars, renderVars>>

\* fetch('/api/gemini', ...) rejects: the request did not reach the relay.
FetchRejected ==
    /\ relayPc = "fetching"
    /\ req \in ClientRequests
    /\ thrown' = RawFetchError
    /\ relayPc' = "thrown"
    /\ UNCHANGED <<req, response, responses, modelCalls, shownMessage>>
    /\ RelayFrame

\* fetch resolves with an error page that is not the handler's.
FetchGatewayError ==
    /\ relayPc = "fetching"
    /\ req \in ClientRequests
    /\ response' = GatewayResponse
    /\ relayPc' = "responded"
    /\ UNCHANGED <<req, responses, modelCalls, thrown, shownMessage>>
    /\ RelayFrame

\* The request reaches the handler.
RequestDelivered ==
    /\ relayPc = "fetching"
    /\ relayPc' = "received"
    /\ UNCHANGED <<req, response, responses, modelCalls, thrown, shownMessage>>
    /\ RelayFrame

\* Mutant of AnalyzeFieldsMissing: mimeType is not looked at.
AnalyzeFieldsMissingNoMime(r) == NotGiven(r.base64Data)

\* !base64Data || !mimeType
AnalyzeFieldsMissing(r) == NotGiven(r.base64Data) \/ NotGiven(r.mimeType)

\* What the handler does up to its first await: the response it sends, or
\* NoResponse when it goes on to call the model.
HandlerOutcome(r) ==
    IF r.method # "POST" THEN ErrorResponse(405, MethodNotAllowed, Missing)
    ELSE IF ~r.hasBody THEN ErrorResponse(500, InternalServerError, RawHandlerError)
    ELSE IF r.action = "analyze"
         THEN IF ~r.hasPayload THEN ErrorResponse(500, InternalServerError, RawHandlerError)
              ELSE IF AnalyzeFieldsMissing(r) THEN ErrorResponse(400, MissingAnalyzeFields, Missing)
              ELSE IF r.mimeType \notin {"image/jpeg", Missing}
                   THEN ErrorResponse(500, InternalServerError, RawHandlerError)
              ELSE NoResponse
    ELSE IF r.action = "audio"
         THEN IF ~r.hasPayload THEN ErrorResponse(500, InternalServerError, RawHandlerError)
              ELSE IF NotGiven(r.text) THEN ErrorResponse(400, MissingText, Missing)
              ELSE NoResponse
    ELSE ErrorResponse(400, InvalidAction, Missing)

\* handler, up to the model call or to the response sent without one.
handler ==
    /\ relayPc = "received"
    /\ IF HandlerOutcome(req) = NoResponse
       THEN /\ relayPc' = "calling"
            /\ modelCalls' = modelCalls + 1
            /\ UNCHANGED <<response, responses>>
       ELSE /\ relayPc' = "responded"
            /\ response' = HandlerOutcome(req)
            /\ responses' = responses + 1
            /\ UNCHANGED modelCalls
    /\ UNCHANGED <<req, thrown, shownMessage>>
    /\ RelayFrame

\* analyzeMediaOnServer / generateAudioOnServer resolves: status 200.
ModelCallResolved ==
    /\ relayPc = "calling"
    /\ response' = SuccessResponse(IF req.action = "analyze" THEN "result" ELSE "audio")
    /\ responses' = responses + 1
    /\ relayPc' = "responded"
    /\ UNCHANGED <<req, modelCalls, thrown, shownMessage>>
    /\ RelayFrame

\* analyzeMediaOnServer / generateAudioOnServer rejects with its fixed
\* message: the handler's catch sends status 500 with that message.
ModelCallRejected ==
    /\ relayPc = "calling"
    /\ response' = ErrorResponse(500, InternalServerError,
                            IF req.action = "analyze" THEN AnalysisFailureMessage
                            ELSE AudioFailureMessage)
    /\ responses' = responses + 1
    /\ relayPc' = "responded"
    /\ UNCHANGED <<req, modelCalls, thrown, shownMessage>>
    /\ RelayFrame

\* The message of the Error handleApiResponse throws for a response that is
\* not ok.
ApiErrorMessage(resp) ==
    LET errorData == IF resp.json THEN resp.message ELSE UnknownErrorMessage
    IN  IF NotGiven(errorData) THEN CommunicationFailureMessage ELSE errorData

\* handleApiResponse, and generateAudio's check of data.audio.
handleApiResponse ==
    /\ relayPc = "responded"
    /\ IF response.status \notin 200..299
       THEN thrown' = ApiErrorMessage(response) /\ relayPc' = "thrown"
       ELSE IF req.action = "audio" /\ NotGiven(response.data)
            THEN thrown' = NoAudioMessage /\ relayPc' = "thrown"
            ELSE relayPc' = "returned" /\ UNCHANGED thrown
    /\ UNCHANGED <<req, response, responses, modelCalls, shownMessage>>
    /\ RelayFrame

\* The catch of handleAnalyzeClick: setError(err.message) / setAudioError(err.message).
ShowMessage ==
    /\ relayPc = "thrown"
    /\ shownMessage' = thrown
    /\ relayPc' = "shown"
    /\ UNCHANGED <<req, response, responses, modelCalls, thrown>>
    /\ RelayFrame

RelayNext ==
    \/ FetchRejected
    \/ FetchGatewayError
    \/ RequestDelivered
    \/ handler
    \/ ModelCallResolved
    \/ ModelCallRejected
    \/ handleApiResponse
    \/ ShowMessage

RelayIdle ==
    /\ relayPc = "idle"
    /\ req = [method |-> "POST", hasBody |-> FALSE, action |-> "other", hasPayload |-> FALSE,
              base64Data |-> Missing, mimeType |-> Missing, text |-> Missing]
    /\ response = NoResponse
    /\ responses = 0
    /\ modelCalls = 0
    /\ thrown = Missing
    /\ shownMessage = Missing

StripIdle ==
    /\ stripPc = "idle"
    /\ stripInput = <<>>
    /\ stripOutput = <<>>

DecodeIdle ==
    /\ decodePc = "idle"
    /\ payload = [digits |-> <<>>, pad |-> 0, blank |-> 0]
    /\ bytes = <<>>
    /\ frameCount = 0
    /\ channelData = <<>>
    /\ loopIndex = 0
    /\ decodedBuffer = Null
    /\ bytesRead = {}

(***************************************************************************)
(* Specifications.                                                         *)
(***************************************************************************)
Init == AppInit /\ ParseIdle /\ StripIdle /\ DecodeIdle /\ RenderIdle /\ RelayIdle

Next == AppNext

\* The App: user actions and the completions of the calls of its runs.
Spec == Init /\ [][Next]_vars

\* The pending call of run r settles (resolves or rejects).
Settle(r) ==
    \/ EncodeResolved(r)
    \/ EncodeRejected(r)
    \/ AnalyzeResolved(r)
    \/ AnalyzeRejected(r)
    \/ \E ok \in BOOLEAN : SynthResolved(r, ok)
    \/ SynthRejected(r)

\* The App when every call that was started settles.
LiveSpec == Init /\ [][Next]_vars /\ \A r \in RunIds : WF_vars(Settle(r))

PlayerNext == AppNext \/ PlayNext

\* The App together with the playback of ResultCard.
PlayerSpec == Init /\ [][PlayerNext]_vars

ParseInit ==
    /\ AppInit /\ ~isMobile /\ StripIdle /\ DecodeIdle /\ RenderIdle /\ RelayIdle
    /\ parsePc = "calling"
    /\ responseText = <<>>
    /\ text = <<>>
    /\ parsedResult = Undefined
    /\ returned = [en |-> <<>>, ru |-> <<>>]
    /\ replyBody = <<>>
    /\ replyWrap = "bare"

\* One call of analyzeMedia, for each reply of the model tried.
ParseSpec == ParseInit /\ [][ParseNext]_vars

StripInit ==
    /\ AppInit /\ ~isMobile /\ ParseIdle /\ DecodeIdle /\ RenderIdle /\ RelayIdle
    /\ stripPc = "input"
    /\ stripInput \in StripInputs
    /\ stripOutput = <<>>

\* One citation clean-up, for each text tried.
StripSpec == StripInit /\ [][StripNext]_vars

DecodeInit ==
    /\ AppInit /\ ~isMobile /\ ParseIdle /\ StripIdle /\ RenderIdle /\ RelayIdle
    /\ decodePc = "start"
    /\ payload \in Payloads
    /\ bytes = <<>>
    /\ frameCount = 0
    /\ channelData = <<>>
    /\ loopIndex = 0
    /\ decodedBuffer = Null
    /\ bytesRead = {}

\* One run of processAudio, for each payload tried.
DecodeSpec == DecodeInit /\ [][DecodeNext]_vars

RenderInit ==
    /\ AppInit /\ ~isMobile /\ ParseIdle /\ StripIdle /\ DecodeIdle /\ RelayIdle
    /\ renderPc = "start"
    /\ sources \in SourceLists
    /\ renderIndex = 0
    /\ items = <<>>
    /\ links = <<>>

\* One rendering of the source list, for each list tried.
RenderSpec == RenderInit /\ [][RenderNext]_vars

RelayInit ==
    /\ AppInit /\ ~isMobile /\ ParseIdle /\ StripIdle /\ DecodeIdle /\ RenderIdle
    /\ relayPc = "fetching"
    /\ req \in Requests
    /\ response = NoResponse
    /\ responses = 0
    /\ modelCalls = 0
    /\ thrown = Missing
    /\ shownMessage = Missing

\* One request to the relay, for each request tried, and what the client
\* makes of the response.
RelaySpec == RelayInit /\ [][RelayNext]_vars

(***************************************************************************)
(* Claims about the App pipeline (specification Spec).                     *)
(***************************************************************************)
\* Run r calls generateAudio in this step.
SynthIssued(r) == runs[r].synth = Null /\ runs'[r].synth # Null

\* The outer catch of run r runs in this step (encoding or inference failed).
AnalysisFailed(r) == runs[r].pc \in {"encoding", "analyzing"} /\ runs'[r].pc = "done"

\* The inner catch of run r runs in this step (generateAudio rejected).
SynthFailed(r) ==
    runs[r].pc = "synthesizing" /\ runs'[r].pc = "done" /\ audioData' = audioData

\* ResultCard's processAudio effect runs in this step on a payload that does
\* not decode.
DecodeFailed ==
    /\ ResultCardShown(isMobile', mobileView', isLoading', error', analysisResult')
    /\ \/ ~ResultCardShown(isMobile, mobileView, isLoading, error, analysisResult)
       \/ audioData' # audioData
    /\ audioData' # Null
    /\ DecodePayload(audioData') = Null

\* C1: in every run of handleAnalyzeClick generateAudio is called only in the
\* continuation that follows the successful resolution of that run's
\* analyzeMedia call, with the en field of the result just returned (and just
\* stored in analysisResult) when the audio language the run reads (the
\* ttsLanguage selected when Analyze was clicked) is 'en', the ru field when
\* it is 'ru'; a run holds a synthesis text only together with its result.
C1_SynthesisAfterInference ==
    /\ [](\A r \in RunIds :
            /\ runs[r].synth # Null => runs[r].result # Null
            /\ runs[r].pc = "synthesizing" <=> runs[r].synth # Null)
    /\ [][\A r \in RunIds : SynthIssued(r) =>
            /\ runs[r].pc = "analyzing"
            /\ runs'[r].result = <<r>>
            /\ analysisResult' = runs'[r].result
            /\ runs'[r].synth = <<runs[r].lang, runs'[r].result[1]>>]_vars

\* C1 witness: a run with 'ru' selected has called generateAudio with the ru
\* field of its own result.
C1_Witness ==
    \E r \in RunIds : runs[r].pc = "synthesizing" /\ runs[r].synth = <<"ru", r>>

\* C2: the payload of a generateAudio call that was pending when the state was
\* reset is never stored as audioData nor decoded into the player's buffer.
C2_StaleAudioIgnored ==
    /\ audioData # Null => audioData[1] \notin staleSynth
    /\ audioBuffer # Null => audioBuffer[1] \notin staleSynth

\* C3 as first stated: at no time are two calls (analyzeMedia or generateAudio)
\* unresolved.
C3_OneCallInFlight ==
    Cardinality({r \in RunIds : runs[r].pc \in {"analyzing", "synthesizing"}}) <= 1

\* C3: among the runs started since the last file selection or Start New
\* Analysis at most one is in flight (encoding, or with an unresolved
\* analyzeMedia or generateAudio call): Analyze cannot start a run while a
\* run started since then is unresolved.
C3_OneCallPerSession == Cardinality(InFlightRuns \ invalidated) <= 1

\* C3 witness: a run of the current session has its call pending while the
\* call of a run started before the last file selection is still unresolved.
C3_Witness ==
    \E r, q \in RunIds :
        /\ r \notin invalidated /\ runs[r].pc \in {"analyzing", "synthesizing"}
        /\ q \in invalidated /\ runs[q].pc \in {"analyzing", "synthesizing"}

C5_AudioFailureReported ==
    [][/\ \A r \in RunIds : SynthFailed(r) =>
            /\ UNCHANGED <<analysisResult, error>>
            /\ isGeneratingAudio' = FALSE
            /\ audioError' # Null
       /\ DecodeFailed => audioError' # Null]_vars


(***************************************************************************)
(* Claims about analyzeMedia's handling of the reply (ParseSpec).          *)
(***************************************************************************)
\* C6: every result analyzeMedia returns has a non-empty en and a non-empty
\* ru; a reply whose JSON lacks one of them, or whose field is empty after
\* the clean-up, makes the call throw instead of returning.
C6_ReturnedFieldsNonEmpty ==
    parsePc = "returned" => returned.en # <<>> /\ returned.ru # <<>>

\* C7: for every valid JSON text, bare or in one fenced block (with the tag
\* json or without a tag), the text handed to JSON.parse has the parse of
\* that JSON text, and so has parsedResult.
C7_FencedJsonParses ==
    JsonParse(replyBody) # SyntaxError =>
        /\ parsePc = "extracted" => JsonParse(text) = JsonParse(replyBody)
        /\ parsePc \in {"parsed", "returned"} => parsedResult = JsonParse(replyBody)[2]

(***************************************************************************)
(* Claim about the citation clean-up (StripSpec).                          *)
(***************************************************************************)
\* s[i..j] is '[', one or more digits, ']'.
IsCitation(s, i, j) ==
    /\ j >= i + 2
    /\ s[i] = "["
    /\ s[j] = "]"
    /\ \A k \in (i + 1)..(j - 1) : s[k] \in Digits

\* The positions of s outside every citation.
KeptPositions(s) ==
    {k \in 1..Len(s) :
        ~\E i \in 1..k, j \in k..Len(s) : IsCitation(s, i, j)}

\* The characters of s at the positions K, in their order.
Restrict(s, K) ==
    [n \in 1..Cardinality(K) |->
        s[CHOOSE k \in K : Cardinality({m \in K : m <= k}) = n]]

\* t is s without the white space at its two ends.
IsTrimOf(t, s) ==
    /\ \E a, b \in 0..Len(s) :
        /\ a + b <= Len(s)
        /\ \A k \in 1..a : s[k] \in WhiteSpace
        /\ \A k \in (Len(s) - b + 1)..Len(s) : s[k] \in WhiteSpace
        /\ Len(t) = Len(s) - a - b
        /\ \A k \in 1..Len(t) : t[k] = s[a + k]
    /\ Len(t) > 0 => t[1] \notin WhiteSpace /\ t[Len(t)] \notin WhiteSpace

\* C8: the clean-up returns its input without the characters of the
\* substrings '[' digits ']' (one digit at least), the other characters kept
\* in order, and without the white space at the two ends; the result is a
\* function of the input.
C8_CitationStripExact ==
    stripPc = "cleaned" =>
        /\ IsTrimOf(stripOutput, Restrict(stripInput, KeptPositions(stripInput)))
        /\ stripOutput = CleanField(stripInput)

\* A text with a citation, brackets that are no citation and white space at
\* an end has been cleaned.
C8_Witness ==
    /\ stripPc = "cleaned"
    /\ \E i, j \in 1..Len(stripInput) : IsCitation(stripInput, i, j)
    /\ \E k \in 1..Len(stripOutput) : stripOutput[k] = "["
    /\ Len(stripInput) > 0
    /\ stripInput[1] \in WhiteSpace
    /\ Len(stripOutput) > 0

(***************************************************************************)
(* Claims about the decoding of the audio payload (DecodeSpec).            *)
(***************************************************************************)
\* C9: when the payload decodes to an odd number of bytes, decodeAudioData
\* throws (the effect's catch is reached), no audio buffer is set, and no
\* byte is read as a part of a sample; no read is ever past the end of the
\* bytes.
C9_OddLengthFails ==
    /\ [](bytesRead \subseteq 0..(Len(bytes) - 1))
    /\ [](Len(bytes) % 2 = 1 =>
            /\ decodePc \in {"decoded", "caught"}
            /\ decodedBuffer = Null
            /\ bytesRead = {})
    /\ [][decodePc = "decoded" /\ Len(bytes) % 2 = 1 => decodePc' = "caught"]_vars

\* A payload of three bytes has been refused.
C9_Witness ==
    /\ decodePc = "caught"
    /\ Len(bytes) = 3
    /\ decodedBuffer = Null

\* C10 as stated: bytes of every even length N are decoded (decodeAudioData
\* goes on to fill its buffer of N/2 samples).
C10_EveryEvenLengthDecodes ==
    [][decodePc = "decoded" /\ Len(bytes) % 2 = 0 => decodePc' = "looping"]_vars

\* C10: a payload of N bytes, N even and more than 0, is decoded into a buffer
\* of N/2 samples; sample i is the signed 16-bit value of the bytes 2i and
\* 2i+1 (low byte first) over 32768, and so lies in [-1, 1).  With N = 0
\* createBuffer refuses the length and no buffer is made.
C10_EvenLengthSamples ==
    /\ [][decodePc = "decoded" /\ Len(bytes) % 2 = 0 =>
            IF Len(bytes) > 0 THEN decodePc' = "looping" ELSE decodePc' = "caught"]_vars
    /\ [](decodePc = "set" =>
            /\ Len(bytes) % 2 = 0
            /\ Len(bytes) > 0
            /\ Len(decodedBuffer) * 2 = Len(bytes)
            /\ \A i \in 0..(Len(decodedBuffer) - 1) :
                LET lo == bytes[2 * i + 1]
                    hi == bytes[2 * i + 2]
                    v  == decodedBuffer[i + 1]
                IN  /\ v[1] = lo + 256 * (hi % 128) - 32768 * (hi \div 128)
                    /\ v[2] = 32768
                    /\ -v[2] <= v[1]
                    /\ v[1] < v[2])

\* A buffer of two samples, a negative one among them, has been set.
C10_Witness ==
    /\ decodePc = "set"
    /\ Len(bytes) = 4
    /\ Len(decodedBuffer) = 2
    /\ \E i \in 1..2 : decodedBuffer[i][1] < 0

(***************************************************************************)
(* Claim about the list of sources (RenderSpec).                           *)
(***************************************************************************)
\* No variant of the entry has a non-empty uri.
NoUsableUri(source) ==
    /\ source.web.present => IsFalsy(source.web.uri)
    /\ source.maps.present => IsFalsy(source.maps.uri)

\* The entry has a variant, and each variant it has has a non-empty uri.
EveryVariantHasUri(source) ==
    /\ source.web.present \/ source.maps.present
    /\ source.web.present => ~IsFalsy(source.web.uri)
    /\ source.maps.present => ~IsFalsy(source.maps.uri)

\* C11: rendering the source list never faults; an entry without a variant,
\* or with variants that have no uri, gives no link; every link shown has a
\* non-empty uri of its entry; the entries whose variants have a uri are all
\* shown, and the links are in the order of their entries.
C11_SourcesWithoutUriSkipped ==
    /\ renderPc # "fault"
    /\ renderPc = "done" =>
        /\ \A n \in 1..Len(links) :
            /\ links[n].key \in 0..(Len(sources) - 1)
            /\ ~IsFalsy(links[n].href)
            /\ LET source == sources[links[n].key + 1]
               IN  \/ source.web.present /\ links[n].href = source.web.uri
                   \/ source.maps.present /\ links[n].href = source.maps.uri
        /\ \A n, m \in 1..Len(links) : n < m => links[n].key < links[m].key
        /\ \A i \in 1..Len(sources) :
            /\ NoUsableUri(sources[i]) => \A n \in 1..Len(links) : links[n].key # i - 1
            /\ EveryVariantHasUri(sources[i]) => \E n \in 1..Len(links) : links[n].key = i - 1

\* A list of an entry whose web variant has no uri and an entry with a uri
\* has been rendered: one link, that of the second entry.
C11_Witness ==
    /\ renderPc = "done"
    /\ Len(sources) = 2
    /\ sources[1].web.present /\ ~sources[1].maps.present
    /\ sources[1].web.uri = Undefined
    /\ Len(links) = 1
    /\ links[1].key = 1

(***************************************************************************)
(* Claim about playback (PlayerSpec).                                      *)
(***************************************************************************)
\* The buffer sources that have been started and have not ended.
StartedSources == orphans + (IF isPlaying THEN 1 ELSE 0)

\* C12: at any time at most one started buffer source has not yet ended.
C12_NoOverlappingPlayback == StartedSources <= 1

(***************************************************************************)
(* Claims about the client calls and the relay (RelaySpec).                *)
(***************************************************************************)
\* The fixed messages written in the client, the relay and the App.
GenericMessages ==
    {UnknownErrorMessage, CommunicationFailureMessage, NoAudioMessage,
     AnalysisFailureMessage, AudioFailureMessage}

\* C13: every message the App shows for a failed call of the client is one of
\* the fixed generic messages.
C13_OnlyGenericMessages ==
    relayPc = "shown" /\ req \in ClientRequests => shownMessage \in GenericMessages

\* C14: the handler sends one response per request; it has status 200 and the
\* success body only for a POST with action analyze or audio, the required
\* fields given and a model call that succeeded; every other response has a
\* status that is not 2xx and an error string; no model call is made for a
\* wrong method, a wrong action or a missing required field.
C14_RelayResponseContract ==
    LET valid ==
            /\ req.method = "POST" /\ req.hasBody /\ req.hasPayload
            /\ \/ /\ req.action = "analyze"
                  /\ req.base64Data \notin {Missing, ""}
                  /\ req.mimeType \notin {Missing, ""}
               \/ req.action = "audio" /\ req.text \notin {Missing, ""}
    IN  /\ responses <= 1
        /\ modelCalls <= 1
        /\ relayPc \in {"received", "calling"} => responses = 0
        /\ relayPc \in {"responded", "returned", "thrown", "shown"} /\ response # GatewayResponse
               /\ thrown # RawFetchError
               => responses = 1
        /\ modelCalls = 1 => valid
        /\ responses = 1 =>
            IF response.status = 200
            THEN /\ valid
                 /\ modelCalls = 1
                 /\ response.data = (IF req.action = "analyze" THEN "result" ELSE "audio")
            ELSE /\ response.status \notin 200..299
                 /\ response.json
                 /\ response.error \notin {Missing, ""}
                 /\ response.data = Missing

\* A request for an analysis without mimeType has been refused with status
\* 400 and no model call.
C14_Witness ==
    /\ relayPc = "responded"
    /\ req.method = "POST" /\ req.hasBody /\ req.hasPayload
    /\ req.action = "analyze" /\ req.base64Data = "d" /\ req.mimeType = Missing
    /\ response.status = 400
    /\ modelCalls = 0
    /\ responses = 1

(***************************************************************************)
(* Further claims about the App pipeline (specification Spec).             *)
(***************************************************************************)
\* C15: the result of an analysis that was in flight when the state was reset
\* (a file selected, Start New Analysis pressed) is never stored in
\* analysisResult after that reset.
C15_StaleResultNotStored ==
    analysisResult # Null => analysisResult[1] \notin invalidated

\* C16: when no call of a run is pending, isLoading and isGeneratingAudio are
\* false; and when every started call settles, they are false from some
\* point on and stay so (the Analyze clicks of a behaviour are finitely many).
C16_EventuallyIdle ==
    /\ [](InFlightRuns = {} => ~isLoading /\ ~isGeneratingAudio)
    /\ <>[](~isLoading /\ ~isGeneratingAudio)

\* Two analyses have been started, the first was cut short by a file
\* selection, and all their calls have settled.
C16_Witness ==
    /\ nextRun > 2
    /\ InFlightRuns = {}
    /\ audioData # Null /\ audioData[1] = 1
    /\ analysisResult = <<2>>
    /\ ~isLoading /\ ~isGeneratingAudio

\* C17: isLoading and isGeneratingAudio are never both true.
C17_NotLoadingAndGenerating == ~(isLoading /\ isGeneratingAudio)

\* Audio is being generated for one analysis while the call of another is
\* pending.
C17_Witness ==
    /\ isGeneratingAudio /\ ~isLoading
    /\ \E r, q \in RunIds :
        /\ runs[r].pc = "synthesizing"
        /\ runs[q].pc \in {"encoding", "analyzing"}

====
